---- MODULE Spec2Model ----
(***************************************************************************)
(* Model of the bot supervisor of src/index.js: an express server that     *)
(* keeps one forked bot.js child per admin UID, a users/<uid>/ directory   *)
(* with appstate.json, admin.txt and logs.txt, and socket.io rooms for     *)
(* live logs.                                                              *)
(*                                                                         *)
(* Node runs every request handler and every event callback of index.js    *)
(* to completion on one thread (all file system calls are the *Sync        *)
(* variants), so each handler is one atomic action.  What is asynchronous  *)
(* is the child process: child.kill() only sends SIGTERM, and the 'data'   *)
(* and 'exit' events of a child arrive in later turns of the event loop.   *)
(*                                                                         *)
(* Every handler is an operator from the state (a record of the variables) *)
(* and its inputs to the state it leaves, and for a request also the       *)
(* response; the action of the handler applies that operator.              *)
(*                                                                         *)
(* Environment assumptions of this model: the file system calls and fork() *)
(* do not throw; timestamps inside log lines are left out; an identifier   *)
(* is the list of the path components of String(admin), and UserDir is the *)
(* directory below USERS_DIR that path.join(USERS_DIR, String(admin))      *)
(* resolves it to; users/ is empty when the server starts.                 *)
(*                                                                         *)
(* Spec is the supervisor without socket clients: no socket joins a room,  *)
(* so every emit reaches nobody.  rooms and inbox are written by Join and  *)
(* Emit only and read by no request handler.                               *)
(*                                                                         *)
(* SpecLive adds the socket clients: a socket may join the rooms of        *)
(* JoinIds at any time, while the requests are those of one tenant.        *)
(* FairSpec is Spec with the guarantee of Node that the 'exit' event of a  *)
(* terminated child is delivered.                                          *)
(* SpecAlias is the supervisor with requests for two identifiers that name *)
(* the same directory, "1" and "1/.".                                      *)
(* SpecBot is Spec with the bot.js whose log() appends to logs.txt itself  *)
(* (the first of the bot.js versions of the repository).                   *)
(* SpecLiveBot is SpecLive with that bot.js.                               *)
(***************************************************************************)
EXTENDS Integers, Sequences, FiniteSets, TLC

\* ------------------------------------------------------------------ bounds
\* index.js:11 sets MAX_USERS = 20; the model scales the cap down, and with
\* it the number of identifiers.
MAX_USERS == 1
\* total number of fork() calls in a run
MaxForks == 2
\* total number of stdout/stderr chunks delivered in a run
MaxChunks == 2
\* number of socket.io connections
NumSockets == 1

\* ------------------------------------------------------------- identifiers
\* Directory names directly below USERS_DIR.
Names == 1..(MAX_USERS + 1)
\* An admin UID as the path it names below USERS_DIR: <<n>> is "n",
\* <<1, 1>> is "1/1" (String(admin) is handed to path.join unchanged).
Ids == {<<n>> : n \in Names} \cup {<<1, 1>>}
\* An admin UID that names the directory of another one: <<1, 0>> is "1/."
\* (0 stands for the component "."), which path.join resolves to the
\* directory of "1", while processes, admin.txt and the socket.io room are
\* keyed by the string as it was sent.
Aliases == {<<1, 0>>}
\* the values of req.body.admin and req.query.uid
Keys == Ids \cup Aliases
\* path.join(USERS_DIR, String(admin)), below USERS_DIR: "." components are
\* dropped
UserDir(admin) == LET Named(c) == c # 0 IN SelectSeq(admin, Named)
\* req.body.admin / req.query.uid absent or empty (falsy)
Missing == <<>>
\* pids: one more than the forks of a run, so that fork() is defined in every state
Pids == 1..(MaxForks + 1)
Sockets == 1..NumSockets
\* rooms a client asks to join
JoinIds == {<<1>>, <<2>>}

\* ---------------------------------------------------------------- payloads
\* req.body.appstate: absent, a JSON text, a broken text, or a parsed value
AppStates ==
  { [type |-> "undefined", v |-> <<>>],
    [type |-> "string", v |-> <<"[1]">>],
    [type |-> "string", v |-> <<"{">>],
    [type |-> "object", v |-> <<1>>] }

\* JSON.parse of the texts above
JSONparse(text) ==
  IF text = <<"[1]">> THEN [ok |-> TRUE, v |-> <<1>>]
  ELSE [ok |-> FALSE, v |-> <<>>]

\* JSON.stringify(value, null, 2) of a one-element array
JSONstringify(value) == <<"[\n  ", value[1], "\n]">>

\* raw chunks a child writes on stdout/stderr
Chunks == { <<"x", "\n">>, <<" ", "x", "\n">> }
Whitespace == {" ", "\n"}

RECURSIVE TrimStart(_)
TrimStart(s) ==
  IF s # <<>> /\ Head(s) \in Whitespace THEN TrimStart(Tail(s)) ELSE s

RECURSIVE TrimEnd(_)
TrimEnd(s) ==
  IF s # <<>> /\ s[Len(s)] \in Whitespace
  THEN TrimEnd(SubSeq(s, 1, Len(s) - 1)) ELSE s

\* String.prototype.trim
Trim(s) == TrimEnd(TrimStart(s))

\* the exit code the 'exit' event reports: null for a child that SIGTERM
\* ended, 1 for a bot that ended itself with process.exit(1)
ExitCode(killed) == IF killed THEN "null" ELSE "1"

\* texts of the log lines
LogsStarted == <<"Logs started at">>
ErrText(text) == <<"[ERR] ">> \o text
ExitText(code) == <<"Bot exited with code ", code>>

\* a line of logs.txt or a 'botlog' message, with the pid of the child it
\* comes from (0: written by the request handler itself)
Line(text, w) == [text |-> text, w |-> w]

\* response bodies
MsgMissing == <<"missing">>
MsgLimit == <<"Limit reached">>
MsgStarted(admin) == <<"Bot started successfully for UID", admin>>
MsgInvalid == <<"Invalid AppState JSON or internal error">>
MsgNotRunning == <<"Bot not running">>
MsgStopped(uid) == <<"Bot stopped for UID", uid>>
MsgStopFailed == <<"Failed to stop bot">>
MsgNoLogs == <<"(No logs yet)">>

VARIABLES
  dirs,         \* directories existing below USERS_DIR, as paths
  files,        \* existing files, as <<directory path, file name>>
  appstateJson, \* content of <dir>/appstate.json
  adminTxt,     \* content of <dir>/admin.txt
  logsTxt,      \* content of <dir>/logs.txt, a sequence of lines
  processes,    \* the processes map: admin -> pid of its child, 0: no such key
  child,        \* the forked children, by pid
  nforks,       \* number of children forked so far
  rooms,        \* socket -> rooms it joined
  inbox,        \* socket -> 'botlog' messages received
  nchunks,      \* number of chunks delivered so far (bounds the run)
  appended,     \* history: lines appendLog added to <dir>/logs.txt since its last reset
  markers,      \* history: number of exit lines appended for each child
  requested,    \* history: children on which the supervisor called kill()
  replaced,     \* history: children that were registered when a start replaced them
  heard         \* history: socket -> tenant -> number of messages the socket had
                \* received at the last successful start of the tenant if it
                \* was in the room of the tenant then, -1 otherwise

vars == <<dirs, files, appstateJson, adminTxt, logsTxt, processes, child,
          nforks, rooms, inbox, nchunks, appended, markers, requested, replaced,
          heard>>

\* a child process: state is "unborn" (pid not used yet), "running",
\* "dead" (the process has terminated, its 'exit' event is not yet emitted)
\* or "reaped" (the 'exit' callback has run); killed is ChildProcess.killed.
NoChild == [admin |-> <<>>, state |-> "unborn", killed |-> FALSE,
            code |-> "none"]

\* the state the handlers of index.js read and write
State ==
  [dirs |-> dirs, files |-> files, appstateJson |-> appstateJson,
   adminTxt |-> adminTxt, logsTxt |-> logsTxt, processes |-> processes,
   child |-> child, nforks |-> nforks, rooms |-> rooms, inbox |-> inbox]

\* the step to state s
Apply(s) ==
  /\ dirs' = s.dirs
  /\ files' = s.files
  /\ appstateJson' = s.appstateJson
  /\ adminTxt' = s.adminTxt
  /\ logsTxt' = s.logsTxt
  /\ processes' = s.processes
  /\ child' = s.child
  /\ nforks' = s.nforks
  /\ rooms' = s.rooms
  /\ inbox' = s.inbox

\* what a request handler does: the state it leaves, the response it sends,
\* and the children it called kill() on
Result(s, status, body, kills) ==
  [st |-> s, status |-> status, body |-> body, kills |-> kills]

Init ==
  /\ dirs = {}
  /\ files = {}
  /\ appstateJson = [d \in Ids |-> <<>>]
  /\ adminTxt = [d \in Ids |-> <<>>]
  /\ logsTxt = [d \in Ids |-> <<>>]
  /\ processes = [a \in Keys |-> 0]
  /\ child = [p \in Pids |-> NoChild]
  /\ nforks = 0
  /\ rooms = [k \in Sockets |-> {}]
  /\ inbox = [k \in Sockets |-> <<>>]
  /\ nchunks = 0
  /\ appended = [d \in Ids |-> <<>>]
  /\ markers = [p \in Pids |-> 0]
  /\ requested = {}
  /\ replaced = {}
  /\ heard = [k \in Sockets |-> [T \in Ids |-> -1]]

\* ----------------------------------------------------------- file system
\* the directories mkdirSync(userDir, {recursive: true}) makes sure exist
Prefixes(path) == {SubSeq(path, 1, n) : n \in 1..Len(path)}

\* if (!fs.existsSync(userDir)) fs.mkdirSync(userDir, { recursive: true })
Mkdir(s, userDir) == [s EXCEPT !.dirs = @ \cup Prefixes(userDir)]

\* fs.existsSync(path.join(dir, name))
ExistsSync(s, dir, name) == <<dir, name>> \in s.files

\* fs.readdirSync(USERS_DIR): the names of the entries directly below it
ReaddirUsers(s) == {d[1] : d \in s.dirs}

\* const currentUsers = fs.readdirSync(USERS_DIR).filter(uid =>
\*   fs.existsSync(path.join(USERS_DIR, uid, 'appstate.json')))
CurrentUsers(s) ==
  {<<n>> : n \in {m \in ReaddirUsers(s) : ExistsSync(s, <<m>>, "appstate.json")}}

\* !currentUsers.includes(String(admin)) && currentUsers.length >= MAX_USERS
LimitReached(s, admin) ==
  admin \notin CurrentUsers(s) /\ Cardinality(CurrentUsers(s)) >= MAX_USERS

\* fs.writeFileSync(logPath, `Logs started at ...\n`)
ResetLog == <<Line(LogsStarted, 0)>>

\* a start that writes the credential and the log and no owner record
WriteFilesNoOwner(s, admin, appStateObj) ==
  LET userDir == UserDir(admin)
  IN  [s EXCEPT !.files = @ \cup {<<userDir, "appstate.json">>, <<userDir, "logs.txt">>},
                !.appstateJson[userDir] = JSONstringify(appStateObj),
                !.logsTxt[userDir] = ResetLog]

\* a start that writes the credential and the owner and leaves the log as it is
WriteFilesKeepLog(s, admin, appStateObj) ==
  LET userDir == UserDir(admin)
  IN  [s EXCEPT !.files = @ \cup {<<userDir, "appstate.json">>,
                                  <<userDir, "admin.txt">>, <<userDir, "logs.txt">>},
                !.appstateJson[userDir] = JSONstringify(appStateObj),
                !.adminTxt[userDir] = admin]

\* the three writeFileSync calls of /start-bot
WriteFiles(s, admin, appStateObj) ==
  LET userDir == UserDir(admin)
  IN  [s EXCEPT !.files = @ \cup {<<userDir, "appstate.json">>,
                                  <<userDir, "admin.txt">>, <<userDir, "logs.txt">>},
                !.appstateJson[userDir] = JSONstringify(appStateObj),
                !.adminTxt[userDir] = admin,
                !.logsTxt[userDir] = ResetLog]

\* a write that puts the line at the start of the file
AppendFileFront(content, line) == <<line>> \o content

\* fs.appendFileSync(logFile, text + "\n")
AppendFile(content, line) == Append(content, line)

\* an appendLog that writes the line before the last line of the file
AppendLogBeforeLast(s, userDir, line) ==
  LET old == s.logsTxt[userDir]
  IN  [s EXCEPT !.files = @ \cup {<<userDir, "logs.txt">>},
                !.logsTxt[userDir] =
                   IF Len(old) < 2 THEN Append(old, line)
                   ELSE SubSeq(old, 1, Len(old) - 1) \o <<line, old[Len(old)]>>]

\* appendLog(userDir, text)
AppendLog(s, userDir, line) ==
  [s EXCEPT !.files = @ \cup {<<userDir, "logs.txt">>},
            !.logsTxt[userDir] = AppendFile(@, line)]

\* fs.readFileSync(logFile, 'utf-8'): the text of the lines
ReadLog(content) == [i \in 1..Len(content) |-> content[i].text]

\* io.emit('botlog', text): every connected socket receives it
EmitToAll(s, room, line) ==
  [s EXCEPT !.inbox = [k \in Sockets |-> Append(s.inbox[k], line)]]

\* io.to(room).emit('botlog', text): every socket in the room receives it
Emit(s, room, line) ==
  [s EXCEPT !.inbox = [k \in Sockets |->
     IF room \in s.rooms[k] THEN Append(s.inbox[k], line) ELSE s.inbox[k]]]

\* ---------------------------------------------------------- child process
\* what child.kill() can do: deliver SIGTERM ("sent"), find the process
\* gone and return false ("gone"), or throw ("throw")
KillOutcomes(s, pid) ==
  IF s.child[pid].state = "running" THEN {"sent", "throw"} ELSE {"gone"}

\* child.kill() with that outcome: a delivered signal sets child.killed
Kill(s, pid, outcome) ==
  IF outcome = "sent" THEN [s EXCEPT !.child[pid].killed = TRUE] ELSE s

\* fork(bot.js, [String(admin)], { silent: true })
Fork(s, admin) ==
  [s EXCEPT !.nforks = @ + 1,
            !.child[s.nforks + 1] = [admin |-> admin, state |-> "running",
                                     killed |-> FALSE, code |-> "none"]]

\* delete processes[admin]
DeleteKey(map, admin) == [map EXCEPT ![admin] = 0]

\* processes[admin] = child
SetKey(map, admin, pid) == [map EXCEPT ![admin] = pid]

\* ------------------------------------------------------------- /start-bot
\* appStateObj = typeof appstate === 'string' ? JSON.parse(appstate) : appstate
AppStateObj(appstate) ==
  IF appstate.type = "string" THEN JSONparse(appstate.v)
  ELSE [ok |-> TRUE, v |-> appstate.v]

\* if (processes[admin]) { try { processes[admin].kill(); } catch (e) {} }
KillPrevious(s, admin, outcome) ==
  IF s.processes[admin] # 0 THEN Kill(s, s.processes[admin], outcome) ELSE s

\* the children /start-bot calls kill() on
Previous(s, admin) ==
  IF s.processes[admin] # 0 THEN {s.processes[admin]} ELSE {}

\* a launch that does not register the child it forks
LaunchUnregistered(s, admin, appStateObj, outcome) ==
  Fork(KillPrevious(WriteFiles(s, admin, appStateObj), admin, outcome), admin)

\* the try block of /start-bot once the appstate is parsed
Launch(s, admin, appStateObj, outcome) ==
  LET written == WriteFiles(s, admin, appStateObj)
      killed == KillPrevious(written, admin, outcome)
      forked == Fork(killed, admin)
  IN  [forked EXCEPT !.processes = SetKey(@, admin, forked.nforks)]

\* a /start-bot that kills the previous child before it parses the appstate
StartBotKillFirst(s, admin, appstate, outcome) ==
  IF appstate.type = "undefined" \/ admin = Missing
  THEN Result(s, 400, MsgMissing, {})
  ELSE IF LimitReached(s, admin)
  THEN Result(s, 403, MsgLimit, {})
  ELSE IF ~AppStateObj(appstate).ok
  THEN Result(KillPrevious(Mkdir(s, UserDir(admin)), admin, outcome), 500, MsgInvalid,
              Previous(s, admin))
  ELSE Result(Launch(Mkdir(s, UserDir(admin)), admin, AppStateObj(appstate).v, outcome),
              200, MsgStarted(admin), Previous(s, admin))

\* a /start-bot that makes the directory of the tenant before it looks at the
\* fields of the request
StartBotMkdirFirst(s, admin, appstate, outcome) ==
  IF appstate.type = "undefined" \/ admin = Missing
  THEN Result(IF admin = Missing THEN s ELSE Mkdir(s, UserDir(admin)), 400, MsgMissing, {})
  ELSE IF LimitReached(s, admin)
  THEN Result(s, 403, MsgLimit, {})
  ELSE IF ~AppStateObj(appstate).ok
  THEN Result(Mkdir(s, UserDir(admin)), 500, MsgInvalid, {})
  ELSE Result(Launch(Mkdir(s, UserDir(admin)), admin, AppStateObj(appstate).v, outcome),
              200, MsgStarted(admin), Previous(s, admin))

\* app.post('/start-bot')
StartBot(s, admin, appstate, outcome) ==
  IF appstate.type = "undefined" \/ admin = Missing
  THEN Result(s, 400, MsgMissing, {})
  ELSE IF LimitReached(s, admin)
  THEN Result(s, 403, MsgLimit, {})
  ELSE IF ~AppStateObj(appstate).ok
  THEN Result(Mkdir(s, UserDir(admin)), 500, MsgInvalid, {})
  ELSE Result(Launch(Mkdir(s, UserDir(admin)), admin, AppStateObj(appstate).v, outcome),
              200, MsgStarted(admin), Previous(s, admin))

\* -------------------------------------------------------------- /stop-bot
\* a stop that signals every running child
StopTryKillAll(s, uid, outcome) ==
  IF outcome = "throw" THEN s
  ELSE [s EXCEPT !.processes = DeleteKey(@, uid),
                 !.child = [w \in Pids |->
                              IF s.child[w].state = "running"
                              THEN [s.child[w] EXCEPT !.killed = TRUE]
                              ELSE s.child[w]]]

\* a stop that signals the child and keeps its processes entry
StopTryKeepsKey(s, uid, outcome) ==
  IF outcome = "throw" THEN s ELSE Kill(s, s.processes[uid], outcome)

\* the try block of /stop-bot: kill, then delete; a throwing kill skips the delete
StopTry(s, uid, outcome) ==
  IF outcome = "throw" THEN s
  ELSE [Kill(s, s.processes[uid], outcome) EXCEPT !.processes = DeleteKey(@, uid)]

\* a /stop-bot that answers a stop of a bot that is not running with an error
StopBotStrict(s, uid, outcome) ==
  IF uid = Missing
  THEN Result(s, 400, MsgMissing, {})
  ELSE IF s.processes[uid] = 0
  THEN Result(s, 500, MsgStopFailed, {})
  ELSE IF outcome = "throw"
  THEN Result(StopTry(s, uid, outcome), 500, MsgStopFailed, {s.processes[uid]})
  ELSE Result(StopTry(s, uid, outcome), 200, MsgStopped(uid), {s.processes[uid]})

\* app.get('/stop-bot')
StopBot(s, uid, outcome) ==
  IF uid = Missing
  THEN Result(s, 400, MsgMissing, {})
  ELSE IF s.processes[uid] = 0
  THEN Result(s, 200, MsgNotRunning, {})
  ELSE IF outcome = "throw"
  THEN Result(StopTry(s, uid, outcome), 500, MsgStopFailed, {s.processes[uid]})
  ELSE Result(StopTry(s, uid, outcome), 200, MsgStopped(uid), {s.processes[uid]})

\* ------------------------------------------------------------------ /logs
\* a /logs that also answers the sentinel for a log that holds nothing but
\* its start line
GetLogsQuiet(s, uid) ==
  IF uid = Missing
  THEN Result(s, 400, <<MsgMissing>>, {})
  ELSE IF ~ExistsSync(s, UserDir(uid), "logs.txt") \/ Len(s.logsTxt[UserDir(uid)]) <= 1
  THEN Result(s, 200, <<MsgNoLogs>>, {})
  ELSE Result(s, 200, ReadLog(s.logsTxt[UserDir(uid)]), {})

\* a /logs that creates the log file it does not find
GetLogsCreates(s, uid) ==
  IF uid = Missing
  THEN Result(s, 400, <<MsgMissing>>, {})
  ELSE IF ~ExistsSync(s, UserDir(uid), "logs.txt")
  THEN Result([s EXCEPT !.files = @ \cup {<<UserDir(uid), "logs.txt">>}],
              200, <<MsgNoLogs>>, {})
  ELSE Result(s, 200, ReadLog(s.logsTxt[UserDir(uid)]), {})

\* app.get('/logs')
GetLogs(s, uid) ==
  IF uid = Missing
  THEN Result(s, 400, <<MsgMissing>>, {})
  ELSE IF ~ExistsSync(s, UserDir(uid), "logs.txt")
  THEN Result(s, 200, <<MsgNoLogs>>, {})
  ELSE Result(s, 200, ReadLog(s.logsTxt[UserDir(uid)]), {})

\* a join that replays the log of the room to the socket that joins
JoinRoomReplay(s, k, uid) ==
  [s EXCEPT !.rooms[k] = @ \cup {uid},
            !.inbox[k] = @ \o (IF uid \in Ids THEN s.logsTxt[uid] ELSE <<>>)]

\* ------------------------------------------------------- socket.on('join')
\* socket.join(uid)
JoinRoom(s, k, uid) == [s EXCEPT !.rooms[k] = @ \cup {uid}]

\* ------------------------------------------------ callbacks of a child
\* a stdout callback that logs a chunk only when a socket is there to receive it
OnStdoutIfWatched(s, w, data) ==
  LET line == Line(Trim(data), w)
  IN  IF \E k \in Sockets : s.child[w].admin \in s.rooms[k]
      THEN Emit(AppendLog(s, UserDir(s.child[w].admin), line), s.child[w].admin, line)
      ELSE s

\* child.stdout.on('data'): appendLog, then emit to the room of the admin
OnStdout(s, w, data) ==
  LET line == Line(Trim(data), w)
  IN  Emit(AppendLog(s, UserDir(s.child[w].admin), line), s.child[w].admin, line)

\* a stderr callback that does not put the [ERR] prefix
OnStderrPlain(s, w, data) ==
  LET line == Line(Trim(data), w)
  IN  Emit(AppendLog(s, UserDir(s.child[w].admin), line), s.child[w].admin, line)

\* child.stderr.on('data')
OnStderr(s, w, data) ==
  LET line == Line(ErrText(Trim(data)), w)
  IN  Emit(AppendLog(s, UserDir(s.child[w].admin), line), s.child[w].admin, line)

\* an exit callback that writes no exit line
OnExitHandlerSilent(s, w) ==
  [s EXCEPT !.processes = DeleteKey(@, s.child[w].admin),
            !.child[w].state = "reaped"]

\* an exit callback that emits the exit line twice
OnExitHandlerEmitTwice(s, w) ==
  LET line == Line(ExitText(s.child[w].code), w)
      logged == Emit(Emit(AppendLog(s, UserDir(s.child[w].admin), line),
                          s.child[w].admin, line), s.child[w].admin, line)
  IN  [logged EXCEPT !.processes = DeleteKey(@, s.child[w].admin),
                     !.child[w].state = "reaped"]

\* an exit callback that forgets delete processes[admin]
OnExitHandlerKeepsKey(s, w) ==
  LET line == Line(ExitText(s.child[w].code), w)
      logged == Emit(AppendLog(s, UserDir(s.child[w].admin), line), s.child[w].admin, line)
  IN  [logged EXCEPT !.child[w].state = "reaped"]

\* child.on('exit')
OnExitHandler(s, w) ==
  LET line == Line(ExitText(s.child[w].code), w)
      logged == Emit(AppendLog(s, UserDir(s.child[w].admin), line), s.child[w].admin, line)
  IN  [logged EXCEPT !.processes = DeleteKey(@, s.child[w].admin),
                     !.child[w].state = "reaped"]

\* ---------------------------------------------------------------- actions
\* the outcomes of the kill() a request for id would call ("none": no kill)
Outcomes(id) ==
  IF id # Missing /\ processes[id] # 0
  THEN KillOutcomes(State, processes[id]) ELSE {"none"}

Start(admin, appstate, outcome) ==
  LET r == StartBot(State, admin, appstate, outcome) IN
  /\ outcome \in Outcomes(admin)
  /\ r.status = 200 => nforks < MaxForks
  /\ Apply(r.st)
  /\ appended' = IF r.status = 200 THEN [appended EXCEPT ![UserDir(admin)] = <<>>]
                 ELSE appended
  /\ requested' = requested \cup r.kills
  /\ replaced' = replaced \cup r.kills
  /\ heard' = IF r.status = 200 /\ admin \in Ids
               THEN [k \in Sockets |->
                       [heard[k] EXCEPT ![admin] = IF admin \in rooms[k]
                                                   THEN Len(inbox[k]) ELSE -1]]
               ELSE heard
  /\ UNCHANGED <<nchunks, markers>>

Stop(uid, outcome) ==
  LET r == StopBot(State, uid, outcome) IN
  /\ outcome \in Outcomes(uid)
  /\ Apply(r.st)
  /\ requested' = requested \cup r.kills
  /\ UNCHANGED <<nchunks, appended, markers, replaced, heard>>

Logs(uid) ==
  /\ Apply(GetLogs(State, uid).st)
  /\ UNCHANGED <<nchunks, appended, markers, requested, replaced, heard>>

Join(k, uid) ==
  /\ Apply(JoinRoom(State, k, uid))
  /\ UNCHANGED <<nchunks, appended, markers, requested, replaced, heard>>

Stdout(w, data) ==
  /\ child[w].state # "unborn"
  /\ nchunks < MaxChunks
  /\ nchunks' = nchunks + 1
  /\ Apply(OnStdout(State, w, data))
  /\ appended' = [appended EXCEPT ![UserDir(child[w].admin)] = Append(@, Line(Trim(data), w))]
  /\ UNCHANGED <<markers, requested, replaced, heard>>

Stderr(w, data) ==
  /\ child[w].state # "unborn"
  /\ nchunks < MaxChunks
  /\ nchunks' = nchunks + 1
  /\ Apply(OnStderr(State, w, data))
  /\ appended' = [appended EXCEPT ![UserDir(child[w].admin)] =
                    Append(@, Line(ErrText(Trim(data)), w))]
  /\ UNCHANGED <<markers, requested, replaced, heard>>

\* the bot process terminates: process.exit(1) in bot.js, a crash, or the
\* SIGTERM of child.kill(); the supervisor has not yet been told
Die(w) ==
  /\ child[w].state = "running"
  /\ child' = [child EXCEPT ![w].state = "dead",
                            ![w].code = ExitCode(child[w].killed)]
  /\ UNCHANGED <<dirs, files, appstateJson, adminTxt, logsTxt, processes,
                 nforks, rooms, inbox, nchunks, appended, markers, requested,
                 replaced, heard>>

\* the number of lines of new after those of old that are the exit line of w
ExitLinesAdded(old, new, w) ==
  Cardinality({i \in (Len(old) + 1)..Len(new) :
                 new[i] = Line(ExitText(child[w].code), w)})

OnExit(w) ==
  /\ child[w].state = "dead"
  /\ Apply(OnExitHandler(State, w))
  /\ appended' = [appended EXCEPT ![UserDir(child[w].admin)] =
                    Append(@, Line(ExitText(child[w].code), w))]
  /\ markers' = [markers EXCEPT ![w] =
                   @ + ExitLinesAdded(logsTxt[UserDir(child[w].admin)],
                                      logsTxt'[UserDir(child[w].admin)], w)]
  /\ UNCHANGED <<nchunks, requested, replaced, heard>>

KillResults == {"none", "sent", "gone", "throw"}

Requests ==
  \/ \E admin \in Ids \cup {Missing}, appstate \in AppStates, outcome \in KillResults :
       Start(admin, appstate, outcome)
  \/ \E uid \in Ids \cup {Missing}, outcome \in KillResults : Stop(uid, outcome)
  \/ \E uid \in Ids \cup {Missing} : Logs(uid)

ChildEvents ==
  \/ \E w \in Pids, data \in Chunks : Stdout(w, data)
  \/ \E w \in Pids, data \in Chunks : Stderr(w, data)
  \/ \E w \in Pids : Die(w)
  \/ \E w \in Pids : OnExit(w)

Next == Requests \/ ChildEvents

Spec == Init /\ [][Next]_vars

\* ------------------------------------------------- with socket.io clients
\* the tenant the requests of SpecLive are about
LiveIds == {<<1>>}

\* socket.emit('join', uid) of a client
Joins == \E k \in Sockets, uid \in JoinIds : Join(k, uid)

LiveRequests ==
  \/ \E admin \in LiveIds \cup {Missing}, appstate \in AppStates, outcome \in KillResults :
       Start(admin, appstate, outcome)
  \/ \E uid \in LiveIds \cup {Missing}, outcome \in KillResults : Stop(uid, outcome)
  \/ \E uid \in LiveIds \cup {Missing} : Logs(uid)

NextLive == LiveRequests \/ ChildEvents \/ Joins

SpecLive == Init /\ [][NextLive]_vars

\* --------------------------------- with two identifiers for one directory
\* the identifiers of the requests of SpecAlias
AliasIds == {<<1>>} \cup Aliases

AliasRequests ==
  \/ \E admin \in AliasIds \cup {Missing}, appstate \in AppStates, outcome \in KillResults :
       Start(admin, appstate, outcome)
  \/ \E uid \in AliasIds \cup {Missing}, outcome \in KillResults : Stop(uid, outcome)
  \/ \E uid \in AliasIds \cup {Missing} : Logs(uid)

NextAlias == AliasRequests \/ ChildEvents

SpecAlias == Init /\ [][NextAlias]_vars

\* ------------------------------------- with a bot that writes its own log
\* the line log(msg) of bot.js builds: `[${time}] ${msg}`
BotLine(w) == Line(<<"[time] ", "x">>, w)

\* fs.appendFileSync(logPath, line + "\n") in log() of bot.js, where logPath
\* is users/<process.argv[2]>/logs.txt
BotAppend(s, w) ==
  [s EXCEPT !.files = @ \cup {<<UserDir(s.child[w].admin), "logs.txt">>},
            !.logsTxt[UserDir(s.child[w].admin)] = Append(@, BotLine(w))]

\* a running bot calls log(): the write to the file is done by the child
\* process, not by a callback of the supervisor
BotLog(w) ==
  /\ child[w].state = "running"
  /\ nchunks < MaxChunks
  /\ nchunks' = nchunks + 1
  /\ Apply(BotAppend(State, w))
  /\ UNCHANGED <<appended, markers, requested, replaced, heard>>

NextBot == Requests \/ ChildEvents \/ \E w \in Pids : BotLog(w)

SpecBot == Init /\ [][NextBot]_vars

\* ------------------- with socket.io clients and a bot that writes its log
NextLiveBot == NextLive \/ \E w \in Pids : BotLog(w)

SpecLiveBot == Init /\ [][NextLiveBot]_vars

\* ------------------------------------------------ with the event loop fair
\* Node emits 'exit' for every child that has terminated: the callback of a
\* dead child is not postponed for ever.
FairSpec == Spec /\ \A w \in Pids : WF_vars(OnExit(w))

\* ================================================================ claims
\* the tenants the specification calls active: those whose credential file
\* (<dir>/appstate.json) exists
ActiveTenants(s) == {id \in Ids : ExistsSync(s, id, "appstate.json")}

\* the start requests that carry both fields
GivenAppStates == {a \in AppStates : a.type # "undefined"}

\* identifiers that name a directory directly below USERS_DIR
TopLevelIds == {id \in Ids : Len(id) = 1}

\* C1: a start request for an identifier without a credential file, made
\* while the number of active tenants is at least MAX_USERS, is answered 403
\* and changes nothing: no directory, no file, no kill, no fork, and the
\* processes map as before.
C1_RejectedAtCap ==
  \A admin \in Ids : \A appstate \in GivenAppStates, outcome \in Outcomes(admin) :
    (/\ ~ExistsSync(State, admin, "appstate.json")
     /\ Cardinality(ActiveTenants(State)) >= MAX_USERS)
    => LET r == StartBot(State, admin, appstate, outcome)
       IN  r.status = 403 /\ r.st = State /\ r.kills = {}

\* C1 for requests the admission test of the code itself turns away (the
\* identifier is not among currentUsers and currentUsers is full): these are
\* answered 403 and change nothing.
C1_RejectedByCodeCount ==
  \A admin \in Ids : \A appstate \in GivenAppStates, outcome \in Outcomes(admin) :
    (/\ admin \notin CurrentUsers(State)
     /\ Cardinality(CurrentUsers(State)) >= MAX_USERS)
    => LET r == StartBot(State, admin, appstate, outcome)
       IN  r.status = 403 /\ r.st = State /\ r.kills = {}

\* C2: a start request for an identifier whose credential file exists is
\* never answered 403, whatever the number of active tenants and whether or
\* not its bot runs, and it leaves the number of active tenants unchanged.
C2_ActiveNeverRejected ==
  \A admin \in Ids : \A appstate \in GivenAppStates, outcome \in Outcomes(admin) :
    ExistsSync(State, admin, "appstate.json")
    => LET r == StartBot(State, admin, appstate, outcome)
       IN  /\ r.status # 403
           /\ Cardinality(ActiveTenants(r.st)) = Cardinality(ActiveTenants(State))

\* C2 for identifiers that name a directory directly below USERS_DIR.
C2_TopLevelNeverRejected ==
  \A admin \in TopLevelIds : \A appstate \in GivenAppStates, outcome \in Outcomes(admin) :
    ExistsSync(State, admin, "appstate.json")
    => LET r == StartBot(State, admin, appstate, outcome)
       IN  /\ r.status # 403
           /\ Cardinality(ActiveTenants(r.st)) = Cardinality(ActiveTenants(State))

\* C3: in every reachable state the number of tenants whose credential file
\* exists is at most MAX_USERS.
C3_AtMostMaxActive == Cardinality(ActiveTenants(State)) <= MAX_USERS

\* C3 as the code counts: the tenants listed by currentUsers never exceed MAX_USERS.
C3_AtMostMaxCounted == Cardinality(CurrentUsers(State)) <= MAX_USERS

\* the children forked for id whose process has not terminated
Live(id) == {w \in Pids : child[w].admin = id /\ child[w].state = "running"}

\* C4: in every reachable state every tenant has at most one forked child
\* whose process has not yet exited.
C4_AtMostOneLive == \A id \in Ids : Cardinality(Live(id)) <= 1

\* C5: once a start has replaced a registered child and reset the log, the
\* log of the tenant holds no line (chunk or exit line) that comes from the
\* replaced child.
C5_NoLineOfReplaced ==
  \A id \in Ids : \A i \in 1..Len(logsTxt[id]) : logsTxt[id][i].w \notin replaced

\* the exit lines of child w that the log of tenant id holds
ExitLinesOf(id, w) ==
  {i \in 1..Len(logsTxt[id]) :
     logsTxt[id][i].w = w /\ Head(logsTxt[id][i].text) = Head(ExitText("1"))}

\* C6: every child whose exit has been handled has had exactly one exit line
\* appended to the log of its tenant, a child whose exit has not been handled
\* none, and no log holds an exit line that the exit callback did not
\* append; and the exit callback leaves the tenant without a key in the
\* processes map.
C6_OneExitLine ==
  /\ \A w \in Pids : markers[w] = IF child[w].state = "reaped" THEN 1 ELSE 0
  /\ \A w \in Pids, id \in Ids :
       Cardinality(ExitLinesOf(id, w)) <= IF id = child[w].admin THEN markers[w] ELSE 0
  /\ \A w \in Pids : child[w].state = "dead"
       => OnExitHandler(State, w).processes[child[w].admin] = 0

\* C6 witness: a child that was replaced while running has been reaped, after
\* another child of the same tenant was forked.
C6_Witness ==
  \E w \in Pids : /\ child[w].state = "reaped"
                  /\ w \in replaced
                  /\ markers[w] = 1
                  /\ processes[child[w].admin] = 0

\* C7: every child whose process runs and on which the supervisor has not
\* called kill() is the child registered in the processes map under its admin.
C7_MapIsTruth ==
  \A w \in Pids :
    (child[w].state = "running" /\ w \notin requested)
    => processes[child[w].admin] = w

C9_StopAlwaysStops ==
  \A uid \in Ids : \A outcome \in Outcomes(uid) :
    processes[uid] # 0
    => LET r == StopBot(State, uid, outcome)
       IN  /\ r.status = 200
           /\ r.body = MsgStopped(uid)
           /\ r.st.processes[uid] = 0

\* C9 when kill() returns (signal sent, or process gone): the answer is 200
\* "Bot stopped" and the key is removed.
C9_StopsUnlessKillThrows ==
  \A uid \in Ids : \A outcome \in Outcomes(uid) \ {"throw"} :
    processes[uid] # 0
    => LET r == StopBot(State, uid, outcome)
       IN  /\ r.status = 200
           /\ r.body = MsgStopped(uid)
           /\ r.st.processes[uid] = 0

\* the texts of a sequence of lines
Texts(lines) == [i \in 1..Len(lines) |-> lines[i].text]

Started(uid) == \E w \in Pids : child[w].state # "unborn" /\ child[w].admin = uid

EmittedFor(T) == Len(appended'[T]) = Len(appended[T]) + 1

\* C12: no step takes a socket out of a room; a step that emits a line for
\* tenant T adds exactly that line at the end of the inbox of every socket
\* that is in the room of T and leaves every other inbox alone; every other
\* step, a join included, leaves every inbox as it is. So a socket that joins
\* after N lines has none of them, and has every later line, in the order of
\* emission.
C12_NoReplayThenEveryLine ==
  [][\A k \in Sockets :
       /\ rooms[k] \subseteq rooms'[k]
       /\ \A T \in Ids :
            EmittedFor(T) =>
              inbox'[k] = IF T \in rooms[k]
                          THEN Append(inbox[k], appended'[T][Len(appended'[T])])
                          ELSE inbox[k]
       /\ (\A T \in Ids : ~EmittedFor(T)) => inbox'[k] = inbox[k]]_vars

\* C12 witness: two different lines were emitted for a tenant since its
\* start, and a socket in its room has received the second and not the first.
C12_Witness ==
  \E k \in Sockets, T \in Ids :
    /\ T \in rooms[k]
    /\ Len(appended[T]) = 2
    /\ appended[T][1] # appended[T][2]
    /\ inbox[k] = <<appended[T][2]>>

\* C13: a socket is in at most one room at any time.
C13_AtMostOneRoom == \A k \in Sockets : Cardinality(rooms[k]) <= 1

\* C13, what the rooms of the code do guarantee: a socket is in the rooms it
\* has asked to join, and a line emitted for a tenant reaches it when the room
\* of that tenant is among them, whatever it joined afterwards.
C13_EveryJoinedRoomDelivers ==
  [][\A k \in Sockets : \A T \in Ids :
       (EmittedFor(T) /\ T \in rooms[k] /\ Cardinality(rooms[k]) > 1)
       => Len(inbox'[k]) = Len(inbox[k]) + 1]_vars

\* the start requests that lack the identifier or the credential
MissingField(admin, appstate) == admin = Missing \/ appstate.type = "undefined"

\* C14: a /start-bot without admin or without appstate, a /stop-bot without
\* uid and a /logs without uid are answered 400 and leave the state as it
\* is: directories, files and their contents, children and the processes map;
\* kill() is called on no child.
C14_MissingFieldRejected ==
  /\ \A admin \in Ids \cup {Missing}, appstate \in AppStates, outcome \in KillResults :
       MissingField(admin, appstate)
       => LET r == StartBot(State, admin, appstate, outcome)
          IN  r.status = 400 /\ r.st = State /\ r.kills = {}
  /\ \A outcome \in KillResults :
       LET r == StopBot(State, Missing, outcome)
       IN  r.status = 400 /\ r.st = State /\ r.kills = {}
  /\ LET r == GetLogs(State, Missing)
     IN  r.status = 400 /\ r.st = State /\ r.kills = {}

\* C14 witness: a tenant with a registered running child for which a start
\* without credential is rejected with 400, in a state where a start with a
\* credential for an identifier without directory would pass.
C14_Witness ==
  \E uid, new \in Ids :
    /\ processes[uid] # 0
    /\ child[processes[uid]].state = "running"
    /\ StartBot(State, uid, [type |-> "undefined", v |-> <<>>], "sent").status = 400
    /\ new \notin dirs
    /\ StartBot(State, new, [type |-> "object", v |-> <<1>>], "none").status = 200
    /\ StartBot(State, new, [type |-> "undefined", v |-> <<>>], "none").st = State

\* the textual credentials JSON.parse rejects
BrokenAppStates == {a \in AppStates : a.type = "string" /\ ~JSONparse(a.v).ok}

StartedTenants == {uid \in Ids : Started(uid)}

\* C16: once at least MAX_USERS distinct tenants have started successfully
\* and stop requests or exits have left none of them with a registered child,
\* a start for an identifier that has never started is answered 403.
C16_SlotStaysTaken ==
  (/\ Cardinality(StartedTenants) >= MAX_USERS
   /\ \A uid \in StartedTenants : processes[uid] = 0)
  => \A new \in Ids \ StartedTenants :
       \A appstate \in GivenAppStates, outcome \in Outcomes(new) :
         StartBot(State, new, appstate, outcome).status = 403

\* C16, the frame of stop and exit: neither /stop-bot nor the exit callback
\* changes the set of credential files, nor the set the admission test counts.
C16_StopKeepsTenancy ==
  /\ \A uid \in Ids \cup {Missing} : \A outcome \in Outcomes(uid) :
       LET r == StopBot(State, uid, outcome)
       IN  /\ ActiveTenants(r.st) = ActiveTenants(State)
           /\ CurrentUsers(r.st) = CurrentUsers(State)
  /\ \A w \in Pids :
       child[w].state = "dead"
       => /\ ActiveTenants(OnExitHandler(State, w)) = ActiveTenants(State)
          /\ CurrentUsers(OnExitHandler(State, w)) = CurrentUsers(State)

\* C16 among identifiers that name a directory directly below USERS_DIR: once
\* MAX_USERS of them have started and none has a registered child, a start
\* for another of them is answered 403.
C16_TopLevelSlotStaysTaken ==
  (/\ Cardinality(StartedTenants \cap TopLevelIds) >= MAX_USERS
   /\ \A uid \in StartedTenants : processes[uid] = 0)
  => \A new \in TopLevelIds \ StartedTenants :
       \A appstate \in GivenAppStates, outcome \in Outcomes(new) :
         StartBot(State, new, appstate, outcome).status = 403

\* the exit of child w is recorded: its callback has run, the line with its
\* exit code is in the log of its tenant, and the processes map does not
\* hold w
ExitRecorded(w) ==
  /\ child[w].state = "reaped"
  /\ \E i \in 1..Len(logsTxt[child[w].admin]) :
       logsTxt[child[w].admin][i] = Line(ExitText(child[w].code), w)
  /\ processes[child[w].admin] # w

\* C17: with the 'exit' event of a terminated child delivered (FairSpec),
\* whenever a child has terminated, for whatever reason, eventually the line
\* with its exit code is in the log of its tenant and the processes map does
\* not hold that child; no request is needed for that.
C17_ExitEventuallyRecorded ==
  \A w \in Pids : (child[w].state = "dead") ~> ExitRecorded(w)

\* C17 witness: the exit of a child that a later start replaced and that
\* SIGTERM ended is recorded, and so is the exit of a child that ended itself.
C17_Witness ==
  \E w, v \in Pids :
    /\ w \in replaced /\ child[w].code = "null" /\ ExitRecorded(w)
    /\ v \notin requested /\ child[v].code = "1" /\ ExitRecorded(v)

\* C18: (1) a start that the admission test lets pass and whose credential
\* decodes is answered 200 "Bot started" in the handler that forks the child:
\* the state it leaves has the new child running and registered under the
\* tenant, and the log reset to the session marker. (2) A child that then
\* ends itself with exit code 1 is reported by the exit callback only: while
\* the 'exit' event is pending the log holds the session marker alone, and
\* once the callback has run the log holds the session marker followed by the
\* line with exit code 1, and the tenant has no entry in the processes map.
C18_StartedThenReaped ==
  /\ \A admin \in Ids : \A appstate \in GivenAppStates \ BrokenAppStates,
                            outcome \in Outcomes(admin) :
       ~LimitReached(State, admin)
       => LET r == StartBot(State, admin, appstate, outcome)
          IN  /\ r.status = 200 /\ r.body = MsgStarted(admin)
              /\ r.st.nforks = nforks + 1
              /\ r.st.processes[admin] = r.st.nforks
              /\ r.st.child[r.st.nforks].admin = admin
              /\ r.st.child[r.st.nforks].state = "running"
              /\ r.st.logsTxt[admin] = <<Line(LogsStarted, 0)>>
  /\ \A w \in Pids :
       LET T == child[w].admin IN
       /\ (child[w].state = "dead" /\ child[w].code = "1" /\ appended[T] = <<>>)
          => logsTxt[T] = <<Line(LogsStarted, 0)>>
       /\ (/\ child[w].state = "reaped" /\ child[w].code = "1"
           /\ appended[T] = <<Line(ExitText("1"), w)>>)
          => /\ logsTxt[T] = <<Line(LogsStarted, 0), Line(ExitText("1"), w)>>
             /\ GetLogs(State, T).body = <<LogsStarted, ExitText("1")>>
             /\ processes[T] = 0

\* C18 witness: the only child forked so far ended itself with code 1 before
\* it wrote anything, no kill() was called on it, its exit callback has run,
\* and a further start of its tenant would be answered 200.
C18_Witness ==
  \E w \in Pids :
    /\ nforks = 1
    /\ child[w].state = "reaped" /\ child[w].code = "1"
    /\ w \notin requested
    /\ appended[child[w].admin] = <<Line(ExitText("1"), w)>>
    /\ processes[child[w].admin] = 0
    /\ StartBot(State, child[w].admin, [type |-> "string", v |-> <<"[1]">>],
                "none").status = 200

\* the state after a callback has appended line l to the log of tenant T and
\* delivered it to the sockets in the room of T, and has done nothing else
Logged(T, l) ==
  [State EXCEPT !.files = @ \cup {<<T, "logs.txt">>},
                !.logsTxt[T] = Append(@, l),
                !.inbox = [k \in Sockets |->
                             IF T \in rooms[k] THEN Append(inbox[k], l) ELSE inbox[k]]]

\* the text of a log line is the chunk: the bytes appended (the text and the
\* line terminator appendLog adds) or the text alone are those of the chunk
SameText(text, data) == text = data \/ text \o <<"\n">> = data

LinesOf(lines, w) == LET FromW(l) == l.w = w IN SelectSeq(lines, FromW)

\* C20: for every tenant and every child, the lines of that child in the log
\* of the tenant are the lines received from it since the last start of the
\* tenant, stdout and stderr together, in the order in which the callbacks
\* received them; and a step that receives a chunk adds its line after every
\* line the log already holds.
C20_LogOrderIsArrivalOrder ==
  \A T \in Ids :
    /\ \A w \in Pids : LinesOf(logsTxt[T], w) = LinesOf(appended[T], w)
    /\ \A w \in Pids, data \in Chunks :
         (child[w].state # "unborn" /\ child[w].admin = T)
         => /\ OnStdout(State, w, data).logsTxt[T]
                 = logsTxt[T] \o <<Line(Trim(data), w)>>
            /\ OnStderr(State, w, data).logsTxt[T]
                 = logsTxt[T] \o <<Line(ErrText(Trim(data)), w)>>

\* C20 witness: the only child of a tenant wrote to stderr and then to
\* stdout, and the log holds the stderr line before the stdout line.
C20_Witness ==
  \E T \in Ids, w \in Pids :
    /\ nforks = 1 /\ child[w].admin = T
    /\ appended[T] = <<Line(ErrText(<<"x">>), w), Line(<<"x">>, w)>>
    /\ logsTxt[T] = <<Line(LogsStarted, 0), Line(ErrText(<<"x">>), w), Line(<<"x">>, w)>>

\* the exit lines of child w among the messages a socket has received
MarkersReceived(k, w) ==
  {i \in 1..Len(inbox[k]) :
     inbox[k][i].w = w /\ \E killed \in BOOLEAN : inbox[k][i].text = ExitText(ExitCode(killed))}

\* C21: the exit callback of a terminated child appends to the log of its
\* tenant the line "Bot exited with code <code>" with the exit code of that
\* child, and delivers that same line once to every socket in the room of the
\* tenant and to no other socket; no socket ever holds more than one exit
\* line of a child, and none of a child whose exit callback has not run.
C21_MarkerWithCodeOnce ==
  /\ \A w \in Pids :
       child[w].state = "dead"
       => LET after == OnExitHandler(State, w)
              T == UserDir(child[w].admin)
              marker == Line(ExitText(child[w].code), w)
          IN  /\ child[w].code = ExitCode(child[w].killed)
              /\ after.logsTxt[T] = Append(logsTxt[T], marker)
              /\ \A k \in Sockets :
                   after.inbox[k] = IF child[w].admin \in rooms[k]
                                    THEN Append(inbox[k], marker) ELSE inbox[k]
  /\ \A k \in Sockets, w \in Pids :
       Cardinality(MarkersReceived(k, w)) <= IF child[w].state = "reaped" THEN 1 ELSE 0

\* C21 witness: a socket that was in the room of a tenant when a child of
\* the tenant was reaped has the exit line of that child as its last message,
\* and the log of the tenant ends with the same line.
C21_Witness ==
  \E k \in Sockets, w \in Pids :
    /\ child[w].state = "reaped"
    /\ child[w].admin \in rooms[k]
    /\ Cardinality(MarkersReceived(k, w)) = 1
    /\ inbox[k][Len(inbox[k])] = Line(ExitText(child[w].code), w)
    /\ logsTxt[UserDir(child[w].admin)][Len(logsTxt[UserDir(child[w].admin)])]
         = inbox[k][Len(inbox[k])]

\* this step shows one of the effects of a start of tenant T: a credential
\* or owner write, a log reset, the kill of the registered child by a start,
\* a fork for T, or the registration of a new child
SomeStartEffect(T) ==
  \/ appstateJson'[T] # appstateJson[T] \/ adminTxt'[T] # adminTxt[T]
  \/ \E name \in {"appstate.json", "admin.txt", "logs.txt"} :
       <<T, name>> \in files' \ files
  \/ Len(logsTxt'[T]) < Len(logsTxt[T])
  \/ \E w \in replaced' \ replaced : child[w].admin = T
  \/ nforks' # nforks /\ child'[nforks'].admin = T
  \/ processes'[T] \notin {0, processes[T]}

\* this step is one whole start of tenant T and nothing else: all files
\* written, the log reset, kill() called on the child that was registered,
\* one child forked and registered; no 'data' or 'exit' callback has run, and
\* the entry of no other tenant has changed
WholeStart(T) ==
  /\ {<<T, "appstate.json">>, <<T, "admin.txt">>, <<T, "logs.txt">>} \subseteq files'
  /\ appstateJson'[T] # <<>> /\ adminTxt'[T] = T
  /\ logsTxt'[T] = <<Line(LogsStarted, 0)>>
  /\ processes[T] # 0 => processes[T] \in requested' \cap replaced'
  /\ nforks' = nforks + 1
  /\ child'[nforks'] = [admin |-> T, state |-> "running", killed |-> FALSE,
                        code |-> "none"]
  /\ processes'[T] = nforks'
  /\ \A other \in Keys \ {T} : processes'[other] = processes[other]
  /\ \A w \in Pids \ {nforks'} : child'[w].state = child[w].state
  /\ nchunks' = nchunks /\ markers' = markers /\ inbox' = inbox

\* C22: every step that shows one effect of a start of a tenant is one whole
\* start of that tenant: admission, the writes, the log reset, the kill of the
\* previous child, fork and registration happen in one step, with no other
\* request and no callback of a child in between.
C22_StartIsOneStep ==
  [][\A T \in Ids : SomeStartEffect(T) => WholeStart(T)]_vars

\* C22 witness: a second start of a tenant has gone through while the child
\* of the first was registered and running: kill() was called on that child
\* and the new child is registered.
C22_Witness ==
  \E T \in Ids, w \in replaced :
    /\ child[w].admin = T /\ child[w].killed
    /\ processes[T] = nforks /\ processes[T] # w
    /\ child[nforks].state = "running"
    /\ logsTxt[T] = <<Line(LogsStarted, 0)>>

\* the log of tenant T is reset in this step by a start
ResetByStart(T) == nforks' = nforks + 1 /\ logsTxt'[T] = <<Line(LogsStarted, 0)>>

\* in this step appendLog adds one line to the log of tenant T (the history
\* of appendLog grows by the same line), and the line is of child w
AppendedByPipeline(T, w) ==
  /\ Len(logsTxt'[T]) = Len(logsTxt[T]) + 1
  /\ logsTxt'[T] = Append(logsTxt[T], logsTxt'[T][Len(logsTxt'[T])])
  /\ appended'[T] = Append(appended[T], logsTxt'[T][Len(logsTxt'[T])])
  /\ logsTxt'[T][Len(logsTxt'[T])].w = w

\* C23: every step that changes the log file of a tenant is the reset of a
\* start or an appendLog of the supervisor for the child that is registered
\* for the tenant when the line is written.
C23_OnlyRegisteredPipelineAppends ==
  [][\A T \in Ids :
       logsTxt'[T] # logsTxt[T]
       => \/ ResetByStart(T)
          \/ processes[T] # 0 /\ AppendedByPipeline(T, processes[T])]_vars

\* C23 for the supervisor alone (Spec: a bot that only writes to stdout and
\* stderr): every step that changes the log file of a tenant is the reset of
\* a start or an appendLog for a child forked for that tenant, registered or
\* not.
C23_AppendersAreStartOrCallbacks ==
  [][\A T \in Ids :
       logsTxt'[T] # logsTxt[T]
       => \/ ResetByStart(T)
          \/ \E w \in Pids : child[w].admin = T /\ AppendedByPipeline(T, w)]_vars

\* the start requests with a credential that decodes
DecodableAppStates == GivenAppStates \ BrokenAppStates

\* what a successful start of admin leaves: kill() called on the child that
\* was registered, and a new running child registered
Relaunched(admin, r) ==
  /\ r.status = 200 /\ r.body = MsgStarted(admin)
  /\ r.kills = {processes[admin]}
  /\ r.st.nforks = nforks + 1
  /\ r.st.processes[admin] = r.st.nforks
  /\ r.st.child[r.st.nforks].state = "running"
  /\ r.st.child[r.st.nforks].admin = admin

\* C24: a start, with a credential that decodes, for a tenant that has a
\* registered child calls kill() on that child, forks and registers a new
\* child and answers 200, whether kill() delivers the signal, finds the
\* process gone, or throws.
C24_StartIgnoresKillFailure ==
  \A admin \in Ids : \A appstate \in DecodableAppStates, outcome \in Outcomes(admin) :
    processes[admin] # 0 => Relaunched(admin, StartBot(State, admin, appstate, outcome))

\* C24 for the requests the admission test lets pass: whatever kill() does,
\* the start calls it on the registered child, forks and registers a new
\* child and answers 200.
C24_AdmittedStartIgnoresKillFailure ==
  \A admin \in Ids : \A appstate \in DecodableAppStates, outcome \in Outcomes(admin) :
    (processes[admin] # 0 /\ ~LimitReached(State, admin))
    => Relaunched(admin, StartBot(State, admin, appstate, outcome))

\* C24: kill() throwing is among the outcomes of a start that is admitted
\* for a tenant with a registered running child
C24_ThrowIsCovered ==
  \E admin \in Ids :
    /\ processes[admin] # 0 /\ ~LimitReached(State, admin)
    /\ "throw" \in Outcomes(admin)

\* the state of tenant B in state s: its entry in the processes map, its
\* children, and its credential file, owner file and log with their contents
TenantState(s, B) ==
  [entry |-> s.processes[B],
   children |-> [w \in Pids |-> IF s.child[w].admin = B THEN s.child[w] ELSE NoChild],
   files |-> {name \in {"appstate.json", "admin.txt", "logs.txt"} :
                ExistsSync(s, UserDir(B), name)},
   credential |-> s.appstateJson[UserDir(B)],
   owner |-> s.adminTxt[UserDir(B)],
   log |-> s.logsTxt[UserDir(B)]]

\* every request and every callback for tenant A leaves the state of tenant
\* B as it is
Isolated(A, B) ==
  /\ \A appstate \in AppStates, outcome \in Outcomes(A) :
       /\ TenantState(StartBot(State, A, appstate, outcome).st, B) = TenantState(State, B)
       /\ TenantState(StopBot(State, A, outcome).st, B) = TenantState(State, B)
  /\ TenantState(GetLogs(State, A).st, B) = TenantState(State, B)
  /\ \A w \in Pids :
       child[w].admin = A
       => /\ \A data \in Chunks :
               /\ TenantState(OnStdout(State, w, data), B) = TenantState(State, B)
               /\ TenantState(OnStderr(State, w, data), B) = TenantState(State, B)
          /\ child[w].state = "dead"
             => TenantState(OnExitHandler(State, w), B) = TenantState(State, B)

\* C25: for distinct identifiers A and B, where B is a tenant that has
\* started, no start, stop or /logs request for A and no output or exit
\* callback of a child of A changes the processes entry, the children, the
\* credential and owner files or the log of B.
C25_TenantsIsolated ==
  \A A, B \in Keys : (A # B /\ Started(B)) => Isolated(A, B)

\* C25 for identifiers that name different directories: the requests and
\* callbacks of one leave the state of the other as it is.
C25_DirectoriesIsolated ==
  \A A, B \in Keys : UserDir(A) # UserDir(B) => Isolated(A, B)

\* old is an initial part of new
IsPrefix(old, new) == Len(old) <= Len(new) /\ SubSeq(new, 1, Len(old)) = old

\* this step is a successful start of identifier T: a child is forked for T
\* and registered under T
SuccessfulStart(T) ==
  /\ nforks' = nforks + 1
  /\ child'[nforks'].admin = T
  /\ processes'[T] = nforks'

\* C26: in every step, the log of a tenant that has started keeps its
\* content and at most gains lines at its end, unless the step is a
\* successful start of that tenant, which leaves the log with the "Logs
\* started" line alone.
C26_LogOnlyGrows ==
  [][\A T \in Keys :
       Started(T)
       => \/ IsPrefix(logsTxt[UserDir(T)], logsTxt'[UserDir(T)])
          \/ /\ SuccessfulStart(T)
             /\ logsTxt'[UserDir(T)] = <<Line(LogsStarted, 0)>>]_vars

\* C26 by log file: in every step, the log file of a directory keeps its
\* content and at most gains lines at its end, unless the step is a
\* successful start of an identifier that resolves to that directory, which
\* leaves the file with the "Logs started" line alone.
C26_FileOnlyGrows ==
  [][\A dir \in Ids :
       \/ IsPrefix(logsTxt[dir], logsTxt'[dir])
       \/ /\ \E T \in Keys : UserDir(T) = dir /\ SuccessfulStart(T)
          /\ logsTxt'[dir] = <<Line(LogsStarted, 0)>>]_vars

\* the state with the sockets in the rooms r and with the inboxes b
WithSubscribers(r, b) == [State EXCEPT !.rooms = r, !.inbox = b]

\* the files and the logs of a state
Captured(s) == [files |-> s.files, logsTxt |-> s.logsTxt]

\* C27: whatever rooms the sockets are in (none, or any of JoinIds), and
\* whether or not their inboxes have been emptied, the stdout and stderr
\* callbacks append the line of the chunk at the end of the log of the tenant
\* in the step in which the chunk arrives; a join changes no file.
C27_CaptureIgnoresSubscribers ==
  /\ \A w \in Pids, data \in Chunks :
       child[w].state # "unborn"
       => \A r \in [Sockets -> SUBSET JoinIds], b \in {inbox, [k \in Sockets |-> <<>>]} :
            LET T == UserDir(child[w].admin) IN
            /\ Captured(OnStdout(WithSubscribers(r, b), w, data))
                 = Captured(OnStdout(State, w, data))
            /\ Captured(OnStderr(WithSubscribers(r, b), w, data))
                 = Captured(OnStderr(State, w, data))
            /\ OnStdout(State, w, data).logsTxt
                 = [logsTxt EXCEPT ![T] = Append(@, Line(Trim(data), w))]
            /\ OnStderr(State, w, data).logsTxt
                 = [logsTxt EXCEPT ![T] = Append(@, Line(ErrText(Trim(data)), w))]
  /\ \A k \in Sockets, uid \in JoinIds :
       Captured(JoinRoom(State, k, uid)) = Captured(State)

\* C27 witness: two chunks of a tenant are in its log although the only
\* socket is in the room of another identifier and has received nothing.
C27_Witness ==
  \E k \in Sockets, T \in LiveIds :
    /\ rooms[k] # {} /\ T \notin rooms[k]
    /\ inbox[k] = <<>>
    /\ Len(appended[T]) = 2
    /\ logsTxt[T] = <<Line(LogsStarted, 0)>> \o appended[T]
    /\ \A i \in 1..2 : appended[T][i].text \in {<<"x">>, ErrText(<<"x">>)}

\* the children whose killed flag differs between the state and s
Signalled(s) == {w \in Pids : s.child[w].killed # child[w].killed}

\* a request for identifier id has called kill() on the children kills and
\* left state s: kill() was called on nothing but the child registered for
\* id, a child of id, and no other child was signalled
KillsOnlyOwn(id, s, kills) ==
  /\ kills \subseteq (IF id \in Keys /\ processes[id] # 0 THEN {processes[id]} ELSE {})
  /\ \A w \in kills : child[w].admin = id
  /\ Signalled(s) \subseteq kills

\* C28: kill() is called on a child only by /stop-bot for its tenant and by
\* a /start-bot for its tenant that replaces it, and only on the child that
\* is registered; a request for another identifier, /logs, a join, and the
\* stdout, stderr and exit callbacks signal no child. (index.js sets no
\* timer.)
C28_KillOnlyByStopOrStart ==
  /\ \A id \in Keys \cup {Missing} : \A outcome \in Outcomes(id) :
       /\ \A appstate \in AppStates :
            LET r == StartBot(State, id, appstate, outcome)
            IN  KillsOnlyOwn(id, r.st, r.kills)
       /\ LET r == StopBot(State, id, outcome)
          IN  KillsOnlyOwn(id, r.st, r.kills)
       /\ LET r == GetLogs(State, id)
          IN  r.kills = {} /\ Signalled(r.st) = {}
  /\ \A k \in Sockets, uid \in JoinIds : Signalled(JoinRoom(State, k, uid)) = {}
  /\ \A w \in Pids :
       /\ child[w].state # "unborn"
          => \A data \in Chunks : /\ Signalled(OnStdout(State, w, data)) = {}
                                  /\ Signalled(OnStderr(State, w, data)) = {}
       /\ child[w].state = "dead" => Signalled(OnExitHandler(State, w)) = {}
  /\ \A w \in Pids : child[w].killed => w \in requested

\* C28 witness: two tenants have had a running child each; /stop-bot has
\* signalled the child of one, and the child of the other is running and has
\* not been signalled.
C28_Witness ==
  \E w, v \in Pids :
    /\ child[w].killed /\ w \in requested \ replaced
    /\ child[v].state = "running" /\ ~child[v].killed
    /\ child[v].admin # child[w].admin
    /\ processes[child[v].admin] = v

\* C29: every message a socket has received is a line of a child whose
\* tenant's room the socket has joined, so a socket that never joined the room
\* of a tenant holds no line of that tenant; and each callback of a child
\* leaves the inbox of every socket outside the room of its tenant as it is.
C29_OnlyJoinedRoomsReceive ==
  /\ \A k \in Sockets : \A i \in 1..Len(inbox[k]) :
       /\ inbox[k][i].w \in Pids
       /\ child[inbox[k][i].w].admin \in rooms[k]
  /\ \A w \in Pids, k \in Sockets :
       child[w].admin \notin rooms[k]
       => /\ child[w].state # "unborn"
             => \A data \in Chunks :
                  /\ OnStdout(State, w, data).inbox[k] = inbox[k]
                  /\ OnStderr(State, w, data).inbox[k] = inbox[k]
          /\ child[w].state = "dead" => OnExitHandler(State, w).inbox[k] = inbox[k]

\* C29 witness: a child of a tenant has written output and has been reaped
\* while the only socket was in the room of another identifier: three lines
\* were emitted for the tenant and the socket has received nothing.
C29_Witness ==
  \E k \in Sockets, w \in Pids :
    /\ child[w].state = "reaped"
    /\ rooms[k] = JoinIds \ {child[w].admin}
    /\ Len(appended[UserDir(child[w].admin)]) = 3
    /\ inbox[k] = <<>>

\* C30: the exit callback of a child removes the processes entry of its
\* tenant only when that entry holds the child that exited; an entry that
\* holds a newer child stays.
C30_ExitRemovesOwnHandleOnly ==
  \A w \in Pids :
    child[w].state = "dead"
    => LET T == child[w].admin
       IN  OnExitHandler(State, w).processes[T]
             = IF processes[T] = w THEN 0 ELSE processes[T]

\* C30, what the exit callback does: it removes the processes entry of the
\* tenant of the child, whichever child the entry holds, and no other entry.
C30_ExitRemovesWhateverIsThere ==
  \A w \in Pids :
    child[w].state = "dead"
    => OnExitHandler(State, w).processes = [processes EXCEPT ![child[w].admin] = 0]

\* line l is the exit line of child w
IsMarker(l, w) ==
  l.w = w /\ \E killed \in BOOLEAN : l.text = ExitText(ExitCode(killed))

\* no line of child w follows the exit line of w in the sequence of lines
MarkerIsLast(lines, w) ==
  \A i \in 1..Len(lines), j \in 1..Len(lines) :
    (IsMarker(lines[i], w) /\ j > i) => lines[j].w # w

\* C31: for every child, its exit line is the last line of that child in the
\* log of its tenant and the last message of that child a socket receives:
\* no chunk of the child is appended or delivered after its exit line.
C31_MarkerIsLast ==
  /\ \A T \in Ids, w \in Pids : MarkerIsLast(logsTxt[T], w)
  /\ \A k \in Sockets, w \in Pids : MarkerIsLast(inbox[k], w)

\* C31, what the code gives: the exit line of a child is written by its
\* 'exit' callback and by nothing else, so every line of a child that the
\* log holds while the callback has not run is a chunk, and a chunk that
\* follows the exit line was received after the 'exit' event.
C31_MarkerOnlyOnceReaped ==
  \A T \in Ids, w \in Pids :
    child[w].state # "reaped"
    => \A i \in 1..Len(logsTxt[T]) : ~IsMarker(logsTxt[T][i], w)

\* the messages socket k has received since the last successful start of T
HeardSince(k, T) == SubSeq(inbox[k], heard[k][T] + 1, Len(inbox[k]))

\* the lines of the log of T after its first line, "Logs started at"
AfterStartLine(T) == SubSeq(logsTxt[T], 2, Len(logsTxt[T]))

\* C32: for every socket that was in the room of tenant T at the last
\* successful start of T (and sockets do not leave rooms), the messages it
\* has received since that start are the lines of the log of T after the
\* "Logs started at" line, in the same order.
C32_LogEqualsBroadcast ==
  \A k \in Sockets, T \in Ids :
    heard[k][T] >= 0 => HeardSince(k, T) = AfterStartLine(T)

\* C32, what the supervisor gives: every 'data' and 'exit' callback adds one
\* line to the log of the directory of its child and sends that same line to
\* the room of the identifier of its child, and a successful start leaves
\* the log with its first line only and sends nothing.
C32_CallbackLogsWhatItSends ==
  \A w \in Pids :
    child[w].state # "unborn"
    => LET T == UserDir(child[w].admin)
           Same(after) ==
             /\ Len(after.logsTxt[T]) = Len(logsTxt[T]) + 1
             /\ \A k \in Sockets :
                  after.inbox[k] =
                    IF child[w].admin \in rooms[k]
                    THEN Append(inbox[k], after.logsTxt[T][Len(after.logsTxt[T])])
                    ELSE inbox[k]
       IN  /\ \A data \in Chunks :
                Same(OnStdout(State, w, data)) /\ Same(OnStderr(State, w, data))
           /\ child[w].state = "dead" => Same(OnExitHandler(State, w))

\* appstate.json and admin.txt exist in the directory bot.js reads them from
\* when it is forked with the argument admin:
\* path.join(__dirname, "users", String(uid))
CredentialsPresent(s, admin) ==
  /\ ExistsSync(s, UserDir(admin), "appstate.json")
  /\ ExistsSync(s, UserDir(admin), "admin.txt")

\* C33: a start that answers 200 forks its child from a state in which
\* appstate.json and admin.txt of the tenant are written, admin.txt holding
\* the identifier of the request and appstate.json the credential as
\* JSON.stringify writes it; and at every later moment both files of every
\* child that was forked exist, so they exist whenever the child reads them.
C33_FilesWrittenBeforeFork ==
  /\ \A admin \in Keys, appstate \in AppStates : \A outcome \in Outcomes(admin) :
       StartBot(State, admin, appstate, outcome).status = 200
       => LET made == Mkdir(State, UserDir(admin))
              obj == AppStateObj(appstate).v
              atFork == KillPrevious(WriteFiles(made, admin, obj), admin, outcome)
              after == StartBot(State, admin, appstate, outcome).st
          IN  /\ CredentialsPresent(atFork, admin)
              /\ atFork.adminTxt[UserDir(admin)] = admin
              /\ atFork.appstateJson[UserDir(admin)] = JSONstringify(obj)
              /\ atFork.nforks = nforks
              /\ after = [Fork(atFork, admin) EXCEPT
                            !.processes = SetKey(@, admin, nforks + 1)]
  /\ \A w \in Pids :
       child[w].state # "unborn" => CredentialsPresent(State, child[w].admin)

\* C33 witness: a tenant was started twice; the second child is running and
\* registered, and the directory of the tenant holds the credential and
\* the owner record with the identifier of the tenant.
C33_Witness ==
  \E w \in Pids :
    /\ nforks = 2 /\ w = nforks
    /\ child[w].state = "running" /\ processes[child[w].admin] = w
    /\ child[1].admin = child[w].admin
    /\ CredentialsPresent(State, child[w].admin)
    /\ adminTxt[UserDir(child[w].admin)] = child[w].admin
    /\ appstateJson[UserDir(child[w].admin)] # <<>>

\* the state after child w has terminated and its 'exit' callback has run
Reaped(s, w) ==
  IF s.child[w].state \in {"unborn", "reaped"} THEN s
  ELSE OnExitHandler([s EXCEPT !.child[w].state = "dead",
                               !.child[w].code = ExitCode(s.child[w].killed)], w)

\* a /stop-bot for uid in state s answers "Bot not running" and leaves s
StopIsNoOp(s, uid) ==
  \A outcome \in KillResults : StopBot(s, uid, outcome) = Result(s, 200, MsgNotRunning, {})

C35_LogsReadOnly ==
  \A uid \in Keys \cup {Missing} :
    /\ GetLogs(State, uid).st = State
    /\ GetLogs(State, uid).kills = {}

\* C35 witness: a tenant has a registered running child, a log with a line
\* of that child and a socket in its room, and /logs answers with the log.
C35_Witness ==
  \E T \in Ids, k \in Sockets :
    /\ processes[T] # 0 /\ child[processes[T]].state = "running"
    /\ T \in rooms[k]
    /\ Len(logsTxt[T]) >= 2 /\ logsTxt[T][2].w = processes[T]
    /\ GetLogs(State, T).body = ReadLog(logsTxt[T])
    /\ GetLogs(State, T).st = State

====
